---- MODULE Spec2Model ----
(***************************************************************************)
(* The background script of the prmonitor extension (src/background.ts):   *)
(* the polling cycle checkPullRequests, the relevance filter of            *)
(* loadPullRequests, the classifier excludeReviewedPullRequests and the    *)
(* notification dedup of showNotificationForNewPullRequests, over          *)
(* chrome.storage.local, the badge and the notifications.                  *)
(*                                                                         *)
(* A cycle is an async function: it runs atomically between two awaits of  *)
(* an operation that completes in a later task (the token, the fetch, a    *)
(* storage callback).  The awaits of updateBadge() and showBadgeError()    *)
(* await undefined: they resume in the same microtask checkpoint, so no    *)
(* other cycle runs in between, and they are part of the atomic step.      *)
(* chrome.storage.local serves its requests in the order they were issued: *)
(* the requests issued and not yet served are the sequence queue.          *)
(***************************************************************************)
EXTENDS Integers, Sequences, FiniteSets, TLC

VARIABLES
  pc,        \* pc[c]: where invocation c of checkPullRequests is suspended
  unrev,     \* unrev[c]: the local unreviewedPullRequests of invocation c
  store,     \* chrome.storage.local
  queue,     \* storage requests issued and not yet served, oldest first
  badge,     \* the browser action's badge: text and background colour
  watch,     \* the invocation under observation, 0 when there is none
  before,    \* storage's unreviewedPullRequests when watch was triggered
  prevSeen,  \* the SeenSet written last when watch was triggered
  alone,     \* whether no other invocation was in flight when watch was triggered
  streak,    \* urls notified, and unreviewed in every cycle classified since
  notified,  \* urls a notification was shown for
  gone,      \* urls of notified not unreviewed in the last successful cycle
  last,      \* how the invocation that ended last ended
  ended,     \* the invocation the last step ended, with what it read and showed
  obs,       \* which of these observations the behaviour records
  input,     \* the (login, pull request) the classifier is applied to
  verdict    \* what the filter and the classifier answered for input

vars == <<pc, unrev, store, queue, badge, watch, before, prevSeen, alone,
          streak, notified, gone, last, ended, obs, input, verdict>>

(***************************************************************************)
(* Bounds.                                                                 *)
(***************************************************************************)
\* Invocations of checkPullRequests that may be in flight together.
MaxCycles == 2
\* A trigger is taken only while at most this many storage requests wait.
MaxPending == 0
\* Entries of a fetched reviews or comments list.
MaxNodes == 2
\* Entries of a fetched assignees or reviewRequests list.
MaxAssignees == 1
\* Timestamps run over 1..MaxTime.
MaxTime == 2

Cycles == 1 .. MaxCycles
Times == 1 .. MaxTime

(***************************************************************************)
(* Fetched data.                                                           *)
(***************************************************************************)
Viewer == "me"
Logins == {"me", "al"}
States == {"APPROVED", "COMMENTED"}

\* new Date(iso).getTime(): timestamps are counted in seconds, getTime() is
\* in milliseconds.
GetTime(t) == t * 1000

SeqsUpTo(S, n) == UNION {[1 .. k -> S] : k \in 0 .. n}

Reviews == [author : Logins, createdAt : Times, state : States]
Comments == [author : Logins, createdAt : Times]

\* Every pull request the query can return for one url, within the bounds.
PullRequestsOf(u, authors) ==
  [url : {u}, updatedAt : Times, author : authors,
   assignees : SeqsUpTo(Logins, MaxAssignees),
   reviewRequests : SeqsUpTo(Logins, MaxAssignees),
   reviews : SeqsUpTo(Reviews, MaxNodes),
   comments : SeqsUpTo(Comments, MaxNodes)]

(***************************************************************************)
(* loadPullRequests, lines 137-162: the relevance filter.                  *)
(***************************************************************************)
\* The filter without the test of line 141.
IsRelevantAnyAuthor(login, p) ==
  \/ \E i \in DOMAIN p.assignees : p.assignees[i] = login
  \/ \E i \in DOMAIN p.reviewRequests : p.reviewRequests[i] = login
  \/ \E i \in DOMAIN p.reviews : p.reviews[i].author = login

IsRelevant(login, p) ==
  /\ p.author # login
  /\ \/ \E i \in DOMAIN p.assignees : p.assignees[i] = login
     \/ \E i \in DOMAIN p.reviewRequests : p.reviewRequests[i] = login
     \/ \E i \in DOMAIN p.reviews : p.reviews[i].author = login

RelevantPullRequests(login, all) == {p \in all : IsRelevant(login, p)}

(***************************************************************************)
(* excludeReviewedPullRequests, lines 168-207.                             *)
(***************************************************************************)
Max(a, b) == IF a >= b THEN a ELSE b

\* The two loops' running maximum over the nodes written by login.
RECURSIVE LastTime(_, _, _)
LastTime(nodes, login, acc) ==
  IF nodes = <<>> THEN acc
  ELSE LastTime(Tail(nodes), login,
                IF Head(nodes).author # login THEN acc
                ELSE Max(GetTime(Head(nodes).createdAt), acc))

ApprovedByViewer(login, p) ==
  \E i \in DOMAIN p.reviews :
    p.reviews[i].author = login /\ p.reviews[i].state = "APPROVED"

GetLastUpdatedTime(p) == GetTime(p.updatedAt)

\* The classifier without the approval test of lines 184-186.
IsReviewedByTime(login, p) ==
  LastTime(p.comments, login, LastTime(p.reviews, login, 0))
    > GetLastUpdatedTime(p)

\* The classifier with >= for the > of line 201.
IsReviewedOrEqual(login, p) ==
  \/ ApprovedByViewer(login, p)
  \/ LastTime(p.comments, login, LastTime(p.reviews, login, 0))
       >= GetLastUpdatedTime(p)

IsReviewed(login, p) ==
  LET lastReviewedOrCommentedAtTime ==
        LastTime(p.comments, login, LastTime(p.reviews, login, 0))
  IN  \/ ApprovedByViewer(login, p)
      \/ lastReviewedOrCommentedAtTime > GetLastUpdatedTime(p)

ExcludeReviewedPullRequests(login, prs) ==
  {p \in prs : ~IsReviewed(login, p)}

UrlsOf(prs) == {p.url : p \in prs}

(***************************************************************************)
(* What the cycles fetch.  A url keeps its author; what changes from one   *)
(* fetch to the next is the assignment, the viewer's reviews and comments  *)
(* and updatedAt.                                                          *)
(***************************************************************************)
Urls == {"u1", "u2", "u3"}
AuthorOf(u) == IF u = "u3" THEN Viewer ELSE "al"

PullRequest(u, t, assignees, reviews, comments) ==
  [url |-> u, updatedAt |-> t, author |-> AuthorOf(u), assignees |-> assignees,
   reviewRequests |-> <<>>, reviews |-> reviews, comments |-> comments]

\* Assigned to the viewer and untouched; commented by the viewer after the
\* last update; approved by the viewer before the last update; no longer
\* assigned to the viewer.
Fetchable(u) ==
  IF AuthorOf(u) = Viewer THEN {PullRequest(u, 1, <<Viewer>>, <<>>, <<>>)} ELSE
  { PullRequest(u, 1, <<Viewer>>, <<>>, <<>>),
    PullRequest(u, 1, <<Viewer>>, <<>>, <<[author |-> Viewer, createdAt |-> 2]>>),
    PullRequest(u, 2, <<Viewer>>,
                <<[author |-> Viewer, createdAt |-> 1, state |-> "APPROVED"]>>, <<>>),
    PullRequest(u, 1, <<>>, <<>>, <<>>) }

\* The open pull requests of one response: at most one per url.
Snapshots ==
  {s \in SUBSET (UNION {Fetchable(u) : u \in Urls}) :
     \A p, q \in s : p.url = q.url => p = q}

NoData == [present |-> FALSE, login |-> "", pullRequests |-> {}]
Data(prs) == [present |-> TRUE, login |-> Viewer, pullRequests |-> prs]

\* What fetch() and data.json() give: a rejection, or a status with the
\* parsed body (errors, message, data).
Rejected(msg) ==
  [rejected |-> TRUE, reason |-> msg, status |-> 0, errors |-> <<>>,
   message |-> "", data |-> NoData]
Response(status, errors, msg, data) ==
  [rejected |-> FALSE, reason |-> "", status |-> status, errors |-> errors,
   message |-> msg, data |-> data]

FetchResults ==
  {Rejected("Failed to fetch"),
   Response(200, <<"Bad credentials">>, "", NoData),
   Response(401, <<>>, "Bad credentials", NoData),
   Response(502, <<>>, "", NoData)}
  \cup {Response(200, <<>>, "", Data(s)) : s \in Snapshots}

\* Line 138 on a body without data.
TypeError == "Cannot read property 'viewer' of undefined"
Thrown(msg) == [ok |-> FALSE, message |-> msg, login |-> "", pullRequests |-> {}]
Returned(login, prs) ==
  [ok |-> TRUE, message |-> "", login |-> login, pullRequests |-> prs]

\* loadPullRequests, lines 68-163.
LoadPullRequests(r) ==
  IF r.rejected THEN Thrown(r.reason)
  ELSE IF r.errors # <<>> THEN Thrown(r.errors[1])
  ELSE IF r.status # 200 /\ r.message # "" THEN Thrown(r.message)
  ELSE IF ~r.data.present THEN Thrown(TypeError)
  ELSE Returned(r.data.login,
                RelevantPullRequests(r.data.login, r.data.pullRequests))

(***************************************************************************)
(* chrome.storage.local and the badge.                                     *)
(***************************************************************************)
\* The message of an exception thrown by a chrome.* call.
ChromeError == "Extension context invalidated."
Null == "null"
Undefined == "undefined"

Absent == [has |-> FALSE, v |-> {}]
Value(v) == [has |-> TRUE, v |-> v]

\* A storage request: set of one key (cb: the invocation awaiting the
\* callback, 0 when no callback was given) or get of lastSeenPullRequests.
SetUnreviewed(c, prs) ==
  [op |-> "set", key |-> "unreviewedPullRequests", prs |-> prs, urls |-> {},
   error |-> "", cb |-> c]
SetLastSeen(urls) ==
  [op |-> "set", key |-> "lastSeenPullRequests", prs |-> {}, urls |-> urls,
   error |-> "", cb |-> 0]
SetError(e) ==
  [op |-> "set", key |-> "error", prs |-> {}, urls |-> {}, error |-> e, cb |-> 0]
GetLastSeen(c) ==
  [op |-> "get", key |-> "lastSeenPullRequests", prs |-> {}, urls |-> {},
   error |-> "", cb |-> c]

\* A storage that adds the urls of a write to the SeenSet it holds.
ServedMerging(s, r) ==
  IF r.op # "set" THEN s
  ELSE IF r.key = "unreviewedPullRequests"
    THEN [s EXCEPT !.unreviewedPullRequests = Value(r.prs)]
  ELSE IF r.key = "lastSeenPullRequests"
    THEN [s EXCEPT !.lastSeenPullRequests = Value(r.urls \cup s.lastSeenPullRequests.v)]
  ELSE [s EXCEPT !.error = r.error]

\* The storage after serving request r.
Served(s, r) ==
  IF r.op # "set" THEN s
  ELSE IF r.key = "unreviewedPullRequests"
    THEN [s EXCEPT !.unreviewedPullRequests = Value(r.prs)]
  ELSE IF r.key = "lastSeenPullRequests"
    THEN [s EXCEPT !.lastSeenPullRequests = Value(r.urls)]
  ELSE [s EXCEPT !.error = r.error]

\* updateBadge, lines 226-233.
UpdateBadge(prCount) ==
  [text |-> ToString(prCount), color |-> IF prCount = 0 THEN "#4d4" ELSE "#f00"]
\* showBadgeError, lines 238-245.
ShowBadgeError == [text |-> "!", color |-> "#000"]

\* A read that takes a missing lastSeenPullRequests for every url seen.
LastSeenOrEverything(s) ==
  IF s.lastSeenPullRequests.has THEN s.lastSeenPullRequests.v ELSE Urls

\* getLastSeenPullRequestsUrls, line 298: result.lastSeenPullRequests || [].
LastSeenPullRequestsUrls(s) ==
  IF s.lastSeenPullRequests.has THEN s.lastSeenPullRequests.v ELSE {}

\* The loop of lines 254-261 without the test of line 255.
NewPullRequestsAll(prs, lastSeenPullRequestUrls) == prs

\* showNotificationForNewPullRequests, lines 254-261: the pull requests
\* showNotification is called for.
NewPullRequests(prs, lastSeenPullRequestUrls) ==
  {p \in prs : p.url \notin lastSeenPullRequestUrls}

(***************************************************************************)
(* The state after the script is installed: nothing stored, no badge.      *)
(***************************************************************************)
NoEnd ==
  [c |-> 0, result |-> "", step |-> "", message |-> "", unrev |-> {},
   priorSeen |-> {}, shown |-> {}, watched |-> FALSE, before |-> Absent,
   prevSeen |-> Absent, alone |-> FALSE]

NoInput == [login |-> "", pr |-> PullRequest("u1", 1, <<>>, <<>>, <<>>)]
NoVerdict ==
  [done |-> FALSE, relevant |-> FALSE, unreviewed |-> FALSE, seen |-> FALSE,
   notified |-> FALSE]

\* before, prevSeen with alone, streak, notified with gone, and last observe
\* the program without acting on it; a behaviour records what obs names and
\* leaves the others as they are.  before, prevSeen and alone follow one
\* invocation at a time, any one: watch.
Installed(o) ==
  /\ obs = o
  /\ pc = [c \in Cycles |-> "idle"]
  /\ unrev = [c \in Cycles |-> {}]
  /\ store = [unreviewedPullRequests |-> Absent, lastSeenPullRequests |-> Absent,
              error |-> Undefined]
  /\ queue = <<>>
  /\ badge = [text |-> "", color |-> ""]
  /\ watch = 0
  /\ before = Absent
  /\ prevSeen = Absent
  /\ alone = FALSE
  /\ streak = {}
  /\ notified = {}
  /\ gone = {}
  /\ last = ""
  /\ ended = NoEnd
  /\ verdict = NoVerdict

Init == Installed("none") /\ input = NoInput
InitFrame == Installed("before") /\ input = NoInput
InitRound == Installed("prevSeen") /\ input = NoInput
InitStreak == Installed("streak") /\ input = NoInput
InitGone == Installed("gone") /\ input = NoInput
InitLast == Installed("last") /\ input = NoInput

\* The filter and the classifier on their own: any viewer login and any one
\* pull request within the bounds.
InitClassify ==
  /\ Installed("none")
  /\ input \in [login : Logins, pr : PullRequestsOf("u1", Logins)]

\* The SeenSet of the latest write issued: the one the storage holds once the
\* pending requests are served.
RECURSIVE LatestSeen(_, _)
LatestSeen(s, q) ==
  IF q = <<>> THEN s.lastSeenPullRequests
  ELSE LatestSeen(Served(s, Head(q)), Tail(q))

(***************************************************************************)
(* checkPullRequests, lines 43-63.                                         *)
(***************************************************************************)
\* The alarm, a "refresh" message or the install event (lines 17-32): each
\* listener calls checkPullRequests(), which runs up to its first await.  The
\* invocations are interchangeable: a new one takes the lowest free slot.
\* pc "load" covers the awaits of lines 46, 69 and 128: the token resolving
\* and the fetch being sent touch nothing another invocation can see.
Trigger(c) ==
  /\ pc[c] = "idle"
  /\ \A d \in 1 .. c - 1 : pc[d] # "idle"
  /\ Len(queue) <= MaxPending
  /\ pc' = [pc EXCEPT ![c] = "load"]
  /\ \/ /\ obs \in {"before", "prevSeen"}
        /\ watch = 0
        /\ watch' = c
        /\ before' = IF obs = "before" THEN store.unreviewedPullRequests ELSE before
        /\ prevSeen' = IF obs = "prevSeen" THEN LatestSeen(store, queue) ELSE prevSeen
        /\ alone' = IF obs = "prevSeen" THEN \A d \in Cycles : pc[d] = "idle"
                    ELSE alone
     \/ UNCHANGED <<watch, before, prevSeen, alone>>
  /\ ended' = NoEnd
  /\ UNCHANGED <<unrev, store, queue, badge, streak, notified, gone, last, obs,
                 input, verdict>>

Streak(urls) == IF obs = "streak" THEN urls ELSE streak

\* The record of an ending keeps what the observation in force reads of it.
Recorded(modes, v, none) == IF obs \in modes THEN v ELSE none

\* An observation that follows watch reads the ending of watch only.
RecordedOf(c, modes, v, none) ==
  IF obs \in {"before", "prevSeen"} /\ watch # c THEN none
  ELSE Recorded(modes, v, none)

\* The invocation c returns (result "ok" or "failed") or throws ("escaped").
Ends(c, result, step, msg, u, lastSeen, new) ==
  /\ pc' = [pc EXCEPT ![c] = "idle"]
  /\ unrev' = [unrev EXCEPT ![c] = {}]
  /\ watch' = IF watch = c THEN 0 ELSE watch
  /\ before' = IF watch = c THEN Absent ELSE before
  /\ prevSeen' = IF watch = c THEN Absent ELSE prevSeen
  /\ alone' = IF watch = c THEN FALSE ELSE alone
  /\ last' = Recorded({"last"}, result, last)
  /\ ended' = [c |-> c, result |-> result,
               step |-> RecordedOf(c, {"none", "before", "prevSeen"}, step, ""),
               message |-> RecordedOf(c, {"none", "before"}, msg, ""),
               unrev |-> RecordedOf(c, {"none", "prevSeen", "gone"}, u, {}),
               priorSeen |-> RecordedOf(c, {"none", "prevSeen"}, lastSeen, {}),
               shown |-> RecordedOf(c, {"none", "prevSeen", "streak", "gone"},
                                    new, {}),
               watched |-> watch = c,
               before |-> IF watch = c THEN before ELSE Absent,
               prevSeen |-> IF watch = c THEN prevSeen ELSE Absent,
               alone |-> watch = c /\ alone]

\* Lines 56-62, entered with the storage requests q pending and the badge b:
\* showBadgeError(), then the error message is written without a callback.
\* When showBadgeError() throws, the exception leaves checkPullRequests and
\* line 60 is not reached.
Catch(c, q, b, step, msg, u, lastSeen, new) ==
  \/ /\ badge' = ShowBadgeError
     /\ queue' = Append(q, SetError(msg))
     /\ Ends(c, "failed", step, msg, u, lastSeen, new)
  \/ /\ badge' = b
     /\ queue' = q
     /\ Ends(c, "escaped", step, msg, u, lastSeen, new)

\* Line 46: getGitHubApiToken() rejects.
TokenRejected(c) ==
  /\ pc[c] = "load"
  /\ Catch(c, queue, badge, "token", "No token", {}, {}, {})
  /\ UNCHANGED <<store, streak, notified, gone, obs, input, verdict>>

\* Lines 47-51 on the fetch result r: what loadPullRequests throws, or the
\* login with the unreviewed set; responses with the same unreviewed set
\* continue the cycle the same way.
Checked(r) ==
  LET loaded == LoadPullRequests(r)
  IN  [loaded |-> [ok |-> loaded.ok, message |-> loaded.message,
                   login |-> loaded.login],
       unreviewedPullRequests |->
         ExcludeReviewedPullRequests(loaded.login, loaded.pullRequests)]

\* Lines 46-52: the token resolved and the fetch ends; loadPullRequests
\* throws or returns the relevant pull requests, excludeReviewedPullRequests
\* classifies them and saveUnreviewedPullRequests issues the write and awaits
\* its callback, or throws.
Fetched(c) ==
  /\ pc[c] = "load"
  /\ \E checked \in {Checked(r) : r \in FetchResults} :
       LET loaded == checked.loaded
           unreviewedPullRequests == checked.unreviewedPullRequests
       IN  IF ~loaded.ok
           THEN /\ Catch(c, queue, badge, "fetch", loaded.message, {}, {}, {})
                /\ UNCHANGED streak
           ELSE /\ streak' = Streak(streak \cap UrlsOf(unreviewedPullRequests))
                /\ \/ /\ unrev' = [unrev EXCEPT ![c] = unreviewedPullRequests]
                      /\ queue' = Append(queue, SetUnreviewed(c, unreviewedPullRequests))
                      /\ pc' = [pc EXCEPT ![c] = "save"]
                      /\ ended' = NoEnd
                      /\ UNCHANGED <<badge, watch, before, prevSeen, alone, last>>
                   \/ Catch(c, queue, badge, "save", ChromeError,
                            unreviewedPullRequests, {}, {})
  /\ UNCHANGED <<store, notified, gone, obs, input, verdict>>

\* Lines 52-54 and 253: the storage serves the write of the unreviewed set
\* and calls back; updateBadge, then getLastSeenPullRequestsUrls issues its
\* read.  Either of the two may throw.
Saved(c) ==
  /\ pc[c] = "save"
  /\ queue # <<>>
  /\ Head(queue).cb = c
  /\ store' = Served(store, Head(queue))
  /\ \/ /\ badge' = UpdateBadge(Cardinality(unrev[c]))
        /\ queue' = Append(Tail(queue), GetLastSeen(c))
        /\ pc' = [pc EXCEPT ![c] = "seen"]
        /\ ended' = NoEnd
        /\ UNCHANGED <<unrev, watch, before, prevSeen, alone, last>>
     \/ Catch(c, Tail(queue), badge, "badge", ChromeError, unrev[c], {}, {})
     \/ Catch(c, Tail(queue), UpdateBadge(Cardinality(unrev[c])), "read",
              ChromeError, unrev[c], {}, {})
  /\ UNCHANGED <<streak, notified, gone, obs, input, verdict>>

\* Lines 253-262 and 55-62: the storage serves the read; a notification is
\* shown for each pull request whose url was not seen, recordSeenPullRequests
\* writes the urls without a callback, and so does line 60 with error null.
\* When showNotification throws, the pull requests before it were shown.
Notified(c) ==
  /\ pc[c] = "seen"
  /\ queue # <<>>
  /\ Head(queue).cb = c
  /\ LET lastSeenPullRequestUrls == LastSeenPullRequestsUrls(store)
         new == NewPullRequests(unrev[c], lastSeenPullRequestUrls)
     IN  \/ /\ streak' = Streak(streak \cup UrlsOf(new))
            /\ notified' = Recorded({"gone"}, notified \cup UrlsOf(new), notified)
            /\ gone' = Recorded({"gone"},
                                (notified \cup UrlsOf(new)) \ UrlsOf(unrev[c]), gone)
            /\ queue' = Append(Append(Tail(queue), SetLastSeen(UrlsOf(unrev[c]))),
                               SetError(Null))
            /\ badge' = badge
            /\ Ends(c, "ok", "", Null, unrev[c], lastSeenPullRequestUrls, UrlsOf(new))
         \/ \E done \in SUBSET new :
              /\ done # new
              /\ streak' = Streak(streak \cup UrlsOf(done))
              /\ notified' = Recorded({"gone"}, notified \cup UrlsOf(done), notified)
              /\ gone' = gone
              /\ Catch(c, Tail(queue), badge, "notify", ChromeError, unrev[c],
                       lastSeenPullRequestUrls, UrlsOf(done))
  /\ UNCHANGED <<store, obs, input, verdict>>

\* The storage serves a write that was issued without a callback.
StorageServes ==
  /\ queue # <<>>
  /\ Head(queue).cb = 0
  /\ store' = Served(store, Head(queue))
  /\ queue' = Tail(queue)
  /\ ended' = NoEnd
  /\ UNCHANGED <<pc, unrev, badge, watch, before, prevSeen, alone, streak,
                 notified, gone, last, obs, input, verdict>>

Next ==
  \/ \E c \in Cycles : Trigger(c)
  \/ \E c \in Cycles : TokenRejected(c)
  \/ \E c \in Cycles : Fetched(c)
  \/ \E c \in Cycles : Saved(c)
  \/ \E c \in Cycles : Notified(c)
  \/ StorageServes

\* Lines 137-162, 168-207, 254-262 and 286-290 on a response that holds the
\* one pull request input.pr, with nothing seen before: is it relevant, is it
\* in the unreviewed set, is its url recorded as seen, is it notified.
Classify ==
  /\ ~verdict.done
  /\ LET relevant == RelevantPullRequests(input.login, {input.pr})
         unreviewedPullRequests == ExcludeReviewedPullRequests(input.login, relevant)
     IN  verdict' =
           [done |-> TRUE,
            relevant |-> input.pr \in relevant,
            unreviewed |-> input.pr \in unreviewedPullRequests,
            seen |-> input.pr.url \in SetLastSeen(UrlsOf(unreviewedPullRequests)).urls,
            notified |-> input.pr \in NewPullRequests(unreviewedPullRequests, {})]
  /\ UNCHANGED <<pc, unrev, store, queue, badge, watch, before, prevSeen, alone,
                 streak, notified, gone, last, ended, obs, input>>

NextClassify == Classify

Spec == Init /\ [][Next]_vars
SpecClassify == InitClassify /\ [][NextClassify]_vars
SpecFrame == InitFrame /\ [][Next]_vars
SpecRound == InitRound /\ [][Next]_vars
SpecStreak == InitStreak /\ [][Next]_vars
SpecGone == InitGone /\ [][Next]_vars
SpecLast == InitLast /\ [][Next]_vars

(***************************************************************************)
(* Properties.                                                             *)
(***************************************************************************)
Last(q) == q[Len(q)]
InFlight == {c \in Cycles : pc[c] # "idle"}
\* The last step ended an invocation.
Ended == ended.c # 0
EndedUrls == {p.url : p \in ended.unrev}

\* C1: at most one invocation of checkPullRequests is in flight at any time.
OneCycleAtATime == Cardinality(InFlight) <= 1

\* C2, as claimed: a cycle that reaches the notification step has shown a
\* notification for exactly the unreviewed pull requests whose url is not in
\* the SeenSet it read.
ShownExactlyTheNew ==
  Ended /\ (ended.result = "ok" \/ ended.step = "notify")
    => ended.shown = {u \in EndedUrls : u \notin ended.priorSeen}

\* C2, amended: a cycle whose notification loop runs to its end has shown a
\* notification for exactly the unreviewed pull requests whose url is not in
\* the SeenSet it read; a cycle in which showNotification throws has shown
\* some of them and no other.
ShownTheNewWhenCompleted ==
  /\ Ended /\ ended.result = "ok"
       => ended.shown = {u \in EndedUrls : u \notin ended.priorSeen}
  /\ Ended /\ ended.step = "notify"
       => /\ ended.shown \subseteq {u \in EndedUrls : u \notin ended.priorSeen}
          /\ ended.shown # {u \in EndedUrls : u \notin ended.priorSeen}

\* A successful cycle that showed a notification for one unreviewed pull
\* request and none for another, whose url it read in the SeenSet.
ShownOneSuppressedOne ==
  /\ Ended /\ ended.result = "ok"
  /\ ended.shown # {}
  /\ \E p \in ended.unrev : p.url \in ended.priorSeen

\* C3: a pull request that was notified and has been in the unreviewed set
\* of every cycle classified since is not notified again.
NotifiedOnce ==
  [][\A u \in streak : ~(ended'.c # 0 /\ u \in ended'.shown)]_vars

\* C4: a successful cycle writes as lastSeenPullRequests exactly the urls of
\* its unreviewed set (followed by its write of error), and the storage
\* replaces the SeenSet it held by the urls of the write it serves.
SeenSetIsTheUnreviewedUrls ==
  /\ [](Ended /\ ended.result = "ok"
          => /\ Len(queue) >= 2
             /\ queue[Len(queue) - 1].op = "set"
             /\ queue[Len(queue) - 1].key = "lastSeenPullRequests"
             /\ queue[Len(queue) - 1].urls = EndedUrls)
  /\ [][queue # <<>> /\ queue' = Tail(queue)
          /\ Head(queue).op = "set" /\ Head(queue).key = "lastSeenPullRequests"
          => store'.lastSeenPullRequests = Value(Head(queue).urls)]_vars

\* A successful cycle with an unreviewed pull request it did not notify, its
\* url being in the SeenSet read, and with a url in the SeenSet read that is
\* not unreviewed any more.
KeptOneDroppedOne ==
  /\ Ended /\ ended.result = "ok"
  /\ \E p \in ended.unrev : p.url \in ended.priorSeen
  /\ ended.priorSeen \ EndedUrls # {}

\* C5: a successful cycle whose unreviewed set has the urls of the SeenSet
\* written last when it was triggered (the unreviewed set of the successful
\* cycle before it) shows no notification.
RoundTripShowsNothing ==
  Ended /\ ended.watched /\ ended.result = "ok" /\ ended.prevSeen.has
        /\ ended.prevSeen.v = EndedUrls
    => ended.shown = {}

\* C6: a cycle whose fetch failed ends with the error badge, the write of
\* the failure's message to error issued, and unreviewedPullRequests in the
\* storage as it was when the cycle was triggered.
FetchFailureLeavesTheList ==
  Ended /\ ended.watched /\ ended.step = "fetch"
    => /\ badge = ShowBadgeError
       /\ queue # <<>> /\ Last(queue) = SetError(ended.message)
       /\ store.unreviewedPullRequests = ended.before

\* C7: a cycle that went through the failure path of lines 56-62, whatever
\* the step that failed, leaves unreviewedPullRequests in the storage as it
\* was when the cycle was triggered, with the error badge shown and the
\* write of the message issued.
FailureLeavesTheList ==
  Ended /\ ended.watched /\ ended.result = "failed"
    => /\ store.unreviewedPullRequests = ended.before
       /\ badge = ShowBadgeError
       /\ queue # <<>> /\ Last(queue) = SetError(ended.message)

\* C8: every failure in checkPullRequests, one in the failure path included,
\* ends with the error badge and the write of the message issued, and the
\* invocation idle.
EveryFailureRecorded ==
  Ended /\ ended.result # "ok"
    => /\ ended.result = "failed"
       /\ badge = ShowBadgeError
       /\ queue # <<>> /\ Last(queue) = SetError(ended.message)
       /\ pc[ended.c] = "idle"

Range(f) == {f[i] : i \in DOMAIN f}
\* The timestamps of the reviews and comments that login wrote on p.
ViewerTimes(login, p) ==
  {r.createdAt : r \in {x \in Range(p.reviews) : x.author = login}}
    \cup {k.createdAt : k \in {x \in Range(p.comments) : x.author = login}}

\* C9: a pull request is relevant exactly when its author is not the viewer
\* and the viewer is an assignee, a requested reviewer or the author of a
\* review; one the viewer wrote is neither relevant nor unreviewed, and is
\* neither recorded as seen nor notified.
RelevantIffAssignedToViewer ==
  verdict.done =>
    /\ verdict.relevant <=>
         /\ input.pr.author # input.login
         /\ \/ input.login \in Range(input.pr.assignees)
            \/ input.login \in Range(input.pr.reviewRequests)
            \/ input.login \in {r.author : r \in Range(input.pr.reviews)}
    /\ input.pr.author = input.login =>
         /\ ~verdict.relevant /\ ~verdict.unreviewed
         /\ ~verdict.seen /\ ~verdict.notified

\* A pull request the viewer wrote, is assigned to, is asked to review and
\* has reviewed, after the filter was applied.
OwnPullRequestFiltered ==
  /\ verdict.done
  /\ input.pr.author = input.login
  /\ input.login \in Range(input.pr.assignees)
  /\ input.login \in Range(input.pr.reviewRequests)
  /\ input.login \in {r.author : r \in Range(input.pr.reviews)}

\* C10: a relevant pull request is left out of the unreviewed set exactly
\* when the viewer approved it in some review or wrote a review or a comment
\* strictly later than updatedAt.
ReviewedIffApprovedOrLater ==
  verdict.done /\ verdict.relevant =>
    (~verdict.unreviewed <=>
       \/ \E r \in Range(input.pr.reviews) :
            r.author = input.login /\ r.state = "APPROVED"
       \/ \E t \in ViewerTimes(input.login, input.pr) : t > input.pr.updatedAt)

\* A relevant pull request classified unreviewed although the viewer
\* commented at exactly updatedAt and another user reviewed it later.
EqualTimestampUnreviewed ==
  /\ verdict.done /\ verdict.relevant /\ verdict.unreviewed
  /\ \E k \in Range(input.pr.comments) :
       k.author = input.login /\ k.createdAt = input.pr.updatedAt
  /\ \E r \in Range(input.pr.reviews) :
       r.author # input.login /\ r.createdAt > input.pr.updatedAt

\* C11: a pull request whose snapshot holds an APPROVED review by the viewer
\* is in no unreviewed set, whatever updatedAt is; it is neither notified nor
\* recorded in the SeenSet.  The classifier keeps nothing from one cycle to
\* the next: every cycle classifies the snapshot it fetched.
ApprovedStaysReviewed ==
  verdict.done
    /\ (\E r \in Range(input.pr.reviews) :
          r.author = input.login /\ r.state = "APPROVED")
    => ~verdict.unreviewed /\ ~verdict.seen /\ ~verdict.notified

\* A relevant pull request the viewer approved, updated after the approval
\* and after everything the viewer wrote on it, once classified.
ApprovedThenUpdated ==
  /\ verdict.done /\ verdict.relevant
  /\ \E r \in Range(input.pr.reviews) :
       r.author = input.login /\ r.state = "APPROVED"
  /\ \A t \in ViewerTimes(input.login, input.pr) : t < input.pr.updatedAt

\* C12: when a cycle ends successfully the badge text is the size of the
\* unreviewed set it saved, green for 0 and red otherwise; when a cycle ends
\* in failure the badge is "!" on black.
BadgeShowsTheOutcome ==
  /\ Ended /\ ended.result = "ok"
       => badge = [text |-> ToString(Cardinality(ended.unrev)),
                   color |-> IF Cardinality(ended.unrev) = 0 THEN "#4d4"
                             ELSE "#f00"]
  /\ Ended /\ ended.result # "ok"
       => badge = [text |-> "!", color |-> "#000"]

NotifiedBeforePersisted ==
  /\ [](\A c \in Cycles :
         pc[c] # "idle"
           => \A i \in DOMAIN queue :
                ~(queue[i].op = "set" /\ queue[i].cb = c))
  /\ [][\A c \in Cycles :
         pc'[c] # "idle" /\ pc'[c] # pc[c] => badge' = badge]_vars

\* C18: with no invocation in flight and no storage request pending, the
\* badge is the error indicator exactly when the stored error is a message.
BadgeAgreesWithError ==
  InFlight = {} /\ queue = <<>>
    => (badge = [text |-> "!", color |-> "#000"]
          <=> store.error \notin {Null, Undefined})

\* C15: an invocation triggered while no other was in flight, and that
\* writes the SeenSet, has read the SeenSet written last when it was
\* triggered: no invocation triggered after it read and wrote before it.
ReadsInTriggerOrder ==
  Ended /\ ended.watched /\ ended.alone /\ ended.result = "ok"
    => ended.priorSeen = IF ended.prevSeen.has THEN ended.prevSeen.v ELSE {}

\* C16: a successful cycle shows a notification for every pull request of
\* its unreviewed set that was notified before and was not in the unreviewed
\* set of the successful cycle that ended last.
RenotifiedWhenBack ==
  [][ended'.c # 0 /\ ended'.result = "ok"
       => \A u \in gone :
            u \in {p.url : p \in ended'.unrev} => u \in ended'.shown]_vars

\* C17: a cycle whose fetch failed has shown no notification, and the
\* SeenSet written last is the one written last when it was triggered.
FetchFailureLeavesTheSeenSet ==
  Ended /\ ended.watched /\ ended.step = "fetch"
    => /\ ended.shown = {}
       /\ LatestSeen(store, queue) = ended.prevSeen

\* C19: with no invocation in flight and no storage request pending, when the
\* invocation that ended last succeeded, the urls of the stored
\* unreviewedPullRequests are the stored lastSeenPullRequests.
PersistedValuesAgree ==
  InFlight = {} /\ queue = <<>> /\ last = "ok"
    => /\ store.unreviewedPullRequests.has
       /\ store.lastSeenPullRequests.has
       /\ {p.url : p \in store.unreviewedPullRequests.v}
            = store.lastSeenPullRequests.v

====
